---- MODULE Spec2Model ----
(***************************************************************************)
(* Model of the orchestration loop of mcp2_orchestrator/agent.py: the      *)
(* Scratchpad (tasks, final_answer, id counter), the message history, and  *)
(* Agent.run as a state machine whose steps are the code between two       *)
(* awaits (the Planner call, each concurrent search, the gather join).     *)
(*                                                                         *)
(* Python values: a str is a TLA+ string, None is the string None below    *)
(* (no Planner input equals it), a list is a sequence, a dict is a record. *)
(* The em dash of the partial-answer tag is written "--": the parser       *)
(* accepts ASCII only.                                                     *)
(*                                                                         *)
(* The Planner is an oracle. Its responses are drawn from small sets: in   *)
(* every round it may finish, answer with text or with nothing, or fail;   *)
(* it goes on with one search per round until the last MaxRichCalls rounds *)
(* of the round budget, where it proposes any calls (searches, add_task,   *)
(* complete_task, finish, an unknown tool; several per response) until it  *)
(* has spent MaxRichCalls, and then goes on with one search per round.     *)
(***************************************************************************)
EXTENDS Integers, Sequences, FiniteSets, TLC

VARIABLES pc, iteration, scratchpad, messages, search_calls, non_search_calls,
          search_results, completed, answer

vars == <<pc, iteration, scratchpad, messages, search_calls, non_search_calls,
          search_results, completed, answer>>

(* ---------------------------- bounds ----------------------------------- *)

\* what the Planner spends in one run on responses other than the quiet ones:
\* one for each call of such a response, one more for free text beside calls
MaxRichCalls == 3
\* task ids 0 .. MaxTasks-1 are the ones the Planner creates and refers to
MaxTasks == 2

(* ------------------------- program constants --------------------------- *)

MAX_ITERATIONS == 10

None == "<None>"

PartialTag == "[Partial answer -- max iterations reached]"

NoResultsMessage == "Unable to answer: no results retrieved within iteration limit."

\* Python truthiness of an Optional[str]
Truthy(s) == s /= None /\ s /= ""

(* --------------------------- Planner inputs ---------------------------- *)

Question == "who founded acme"
Queries == {"q1", "q2"}
\* the Planner describes the n-th task it creates as "d<n>"
Description(n) == "d" \o ToString(n)
Descriptions == {Description(n) : n \in 1 .. MaxTasks}
\* task ids 0 .. MaxTasks-1 can exist; MaxTasks never names a task
DependsOnChoices == {<<>>, <<0>>, <<MaxTasks>>}
TaskIdChoices == 0 .. MaxTasks
ResultChoices == {"", "r1"}
AnswerChoices == {"", "a1"}
ContentChoices == {None, "", "t1"}

SearchKinds == {[name |-> "search_knowledge", query |-> q] : q \in Queries}
AddTaskKinds ==
    {[name |-> "add_task", description |-> d, depends_on |-> ds] :
        d \in Descriptions, ds \in DependsOnChoices}
CompleteTaskKinds ==
    {[name |-> "complete_task", task_id |-> i, result |-> r] :
        i \in TaskIdChoices, r \in ResultChoices}
FinishKinds == {[name |-> "finish", answer |-> a] : a \in AnswerChoices}
UnknownKinds == {[name |-> "deleteEverything"]}

CallKinds ==
    SearchKinds \cup AddTaskKinds \cup CompleteTaskKinds \cup FinishKinds
        \cup UnknownKinds

\* the one call of a quiet response: one more search, or finish
QuietKinds == {[name |-> "search_knowledge", query |-> "q1"]} \cup FinishKinds

\* the correlation token of the k-th call of the round
CallId(it, k) == it * (MaxRichCalls + 1) + k

ToolCalls(it, kinds) ==
    [k \in 1 .. Len(kinds) |-> [id |-> CallId(it, k), function |-> kinds[k]]]

\* a quiet response: one quiet call and no free text
IsQuiet(content, kinds) ==
    content = None /\ Len(kinds) = 1 /\ kinds[1] \in QuietKinds

Cost(content, kinds) ==
    IF kinds = <<>> \/ IsQuiet(content, kinds) THEN 0
    ELSE Len(kinds) + (IF content = None THEN 0 ELSE 1)

KindsOf(tool_calls) == [k \in DOMAIN tool_calls |-> tool_calls[k].function]

\* what the Planner has spent in the responses of the history
RECURSIVE Spent(_, _)
Spent(msgs, i) ==
    IF i = 0 THEN 0
    ELSE Spent(msgs, i - 1)
         + (IF msgs[i].role = "assistant"
            THEN Cost(msgs[i].content, KindsOf(msgs[i].tool_calls))
            ELSE 0)

\* the Planner spends in the last MaxRichCalls rounds of the budget only
IsRich(it) == it >= MAX_ITERATIONS - MaxRichCalls

AddsBefore(kinds, k) == Cardinality({j \in 1 .. k - 1 : kinds[j].name = "add_task"})

\* the add_task calls of the response create tasks number created+1, ... of
\* the run, at most MaxTasks in all, and describe them so
AddsInOrder(kinds, created) ==
    \A k \in DOMAIN kinds :
        kinds[k].name = "add_task" =>
            /\ created + AddsBefore(kinds, k) < MaxTasks
            /\ kinds[k].description = Description(created + AddsBefore(kinds, k) + 1)

\* the responses that carry calls and are not quiet, of cost up to left
RichResponses(left, sp) ==
    {r \in [content : {None, "t1"},
            kinds : UNION {[1 .. n -> CallKinds] : n \in 1 .. left}] :
        /\ ~IsQuiet(r.content, r.kinds)
        /\ Cost(r.content, r.kinds) <= left
        /\ AddsInOrder(r.kinds, Len(sp.tasks))}

\* responses of the Planner that carry tool calls: finish at any time; one
\* more search before the last MaxRichCalls rounds and once everything is
\* spent; in between, any response the Planner can still pay for
ToolResponses(it, msgs, sp) ==
    LET left == MaxRichCalls - Spent(msgs, Len(msgs))
        spending == IsRich(it) /\ left > 0
    IN  {[content |-> None, tool_calls |-> ToolCalls(it, <<q>>)] :
            q \in IF spending THEN FinishKinds ELSE QuietKinds}
        \cup
        {[content |-> r.content, tool_calls |-> ToolCalls(it, r.kinds)] :
            r \in IF spending THEN RichResponses(left, sp) ELSE {}}

\* responses of the Planner that carry no tool call
TextResponses == {[content |-> c, tool_calls |-> <<>>] : c \in ContentChoices}

(* ------------------------------ Scratchpad ----------------------------- *)

Task(id, description, depends_on) ==
    [id |-> id, description |-> description, status |-> "pending",
     depends_on |-> depends_on, result |-> None]

NewScratchpad(question) ==
    [question |-> question, tasks |-> <<>>, final_answer |-> None, next_id |-> 0]

\* slip: the id counter is not advanced
add_task_SameId(sp, description, depends_on) ==
    [sp EXCEPT !.tasks = Append(@, Task(sp.next_id, description, depends_on))]

add_task(sp, description, depends_on) ==
    [sp EXCEPT !.next_id = @ + 1,
               !.tasks = Append(@, Task(sp.next_id, description, depends_on))]

\* the first task of the list with this id, or 0
FirstWithId(tasks, task_id) ==
    LET hits == {i \in DOMAIN tasks : tasks[i].id = task_id}
    IN  IF hits = {} THEN 0 ELSE CHOOSE i \in hits : \A j \in hits : i <= j

\* slip: the status is set only when the result is not empty
complete_task_StatusIfResult(sp, task_id, result) ==
    LET i == FirstWithId(sp.tasks, task_id)
    IN  IF i = 0 THEN sp
        ELSE IF Truthy(result)
             THEN [sp EXCEPT !.tasks[i].status = "complete", !.tasks[i].result = result]
             ELSE [sp EXCEPT !.tasks[i].result = result]

\* slip: a task is completed only once its dependencies are complete
complete_task_Gated(sp, task_id, result) ==
    LET i == FirstWithId(sp.tasks, task_id)
        done_ids == {sp.tasks[j].id : j \in {n \in DOMAIN sp.tasks :
                        sp.tasks[n].status = "complete"}}
    IN  IF i = 0 THEN sp
        ELSE IF \E d \in DOMAIN sp.tasks[i].depends_on :
                    sp.tasks[i].depends_on[d] \notin done_ids THEN sp
        ELSE [sp EXCEPT !.tasks[i].status = "complete", !.tasks[i].result = result]

complete_task(sp, task_id, result) ==
    LET i == FirstWithId(sp.tasks, task_id)
    IN  IF i = 0 THEN sp
        ELSE [sp EXCEPT !.tasks[i].status = "complete", !.tasks[i].result = result]

\* slip: the dependencies are tested against every task id
runnable_tasks_AnyDep(sp) ==
    LET all_ids == {sp.tasks[i].id : i \in DOMAIN sp.tasks}
        Keep(t) == t.status = "pending"
                   /\ {t.depends_on[k] : k \in DOMAIN t.depends_on} \subseteq all_ids
    IN  SelectSeq(sp.tasks, Keep)

runnable_tasks(sp) ==
    LET complete_ids == {sp.tasks[i].id : i \in {j \in DOMAIN sp.tasks :
                                              sp.tasks[j].status = "complete"}}
        Keep(t) == t.status = "pending"
                   /\ {t.depends_on[k] : k \in DOMAIN t.depends_on} \subseteq complete_ids
    IN  SelectSeq(sp.tasks, Keep)

(* ------------------------------ Agent.run ------------------------------ *)

AssistantMessage(resp) ==
    [role |-> "assistant", content |-> resp.content, tool_calls |-> resp.tool_calls]

ToolMessage(id, content) ==
    [tool_call_id |-> id, role |-> "tool", content |-> content]

IsSearch(tc) == tc.function.name = "search_knowledge"
IsNotSearch(tc) == ~IsSearch(tc)

\* json.dumps of what Mcp1Client.search returns for the query
SearchContent(query) == "[{\"content\": \"doc for " \o query \o "\"}]"

\* the slot gather keeps for the result of an awaitable that is not done
NotDone == [role |-> "pending"]

\* slip: the results in the order the awaitables completed
Gather_AsCompleted(calls, results, order) ==
    [k \in 1 .. Len(calls) |-> results[order[k]]]

\* asyncio.gather: the results in the order of the awaitables passed in; the
\* order they completed in (order) plays no part
Gather(calls, results, order) ==
    [k \in 1 .. Len(calls) |-> results[k]]

\* slip: a result is put in front of the round's results
AppendResult_Front(tool_results, m) == <<m>> \o tool_results

\* tool_results.append
AppendResult(tool_results, m) == Append(tool_results, m)

\* slip: a finish after the first one of the round leaves final_answer alone
RECURSIVE Dispatch_FirstFinishWins(_, _, _)
Dispatch_FirstFinishWins(calls, k, st) ==
    IF k > Len(calls) THEN st
    ELSE
      LET tc == calls[k]
          fn == tc.function.name
          args == tc.function
          sp == st[1]
          next ==
            IF fn = "add_task" THEN
                <<add_task(sp, args.description, args.depends_on),
                  AppendResult(st[2], ToolMessage(tc.id,
                      "{\"task_id\": " \o ToString(sp.next_id) \o "}")),
                  st[3]>>
            ELSE IF fn = "complete_task" THEN
                <<complete_task(sp, args.task_id, args.result),
                  AppendResult(st[2], ToolMessage(tc.id, "{\"status\": \"ok\"}")),
                  st[3]>>
            ELSE IF fn = "finish" THEN
                <<IF st[3] THEN sp ELSE [sp EXCEPT !.final_answer = args.answer],
                  AppendResult(st[2], ToolMessage(tc.id, "{\"status\": \"done\"}")),
                  TRUE>>
            ELSE st
      IN  Dispatch_FirstFinishWins(calls, k + 1, next)

\* slip: the calls after the k-th are dispatched before it
RECURSIVE Dispatch_Backwards(_, _, _)
Dispatch_Backwards(calls, k, st) ==
    IF k > Len(calls) THEN st
    ELSE
      LET rest == Dispatch_Backwards(calls, k + 1, st)
          tc == calls[k]
          fn == tc.function.name
          args == tc.function
          sp == rest[1]
      IN  IF fn = "add_task" THEN
              <<add_task(sp, args.description, args.depends_on),
                AppendResult(rest[2], ToolMessage(tc.id,
                    "{\"task_id\": " \o ToString(sp.next_id) \o "}")),
                rest[3]>>
          ELSE IF fn = "complete_task" THEN
              <<complete_task(sp, args.task_id, args.result),
                AppendResult(rest[2], ToolMessage(tc.id, "{\"status\": \"ok\"}")),
                rest[3]>>
          ELSE IF fn = "finish" THEN
              <<[sp EXCEPT !.final_answer = args.answer],
                AppendResult(rest[2], ToolMessage(tc.id, "{\"status\": \"done\"}")),
                TRUE>>
          ELSE rest

\* slip: the loop over non_search_calls is left at finish
RECURSIVE Dispatch_StopAtFinish(_, _, _)
Dispatch_StopAtFinish(calls, k, st) ==
    IF k > Len(calls) \/ st[3] THEN st
    ELSE
      LET tc == calls[k]
          fn == tc.function.name
          args == tc.function
          sp == st[1]
          next ==
            IF fn = "add_task" THEN
                <<add_task(sp, args.description, args.depends_on),
                  AppendResult(st[2], ToolMessage(tc.id,
                      "{\"task_id\": " \o ToString(sp.next_id) \o "}")),
                  st[3]>>
            ELSE IF fn = "complete_task" THEN
                <<complete_task(sp, args.task_id, args.result),
                  AppendResult(st[2], ToolMessage(tc.id, "{\"status\": \"ok\"}")),
                  st[3]>>
            ELSE IF fn = "finish" THEN
                <<[sp EXCEPT !.final_answer = args.answer],
                  AppendResult(st[2], ToolMessage(tc.id, "{\"status\": \"done\"}")),
                  TRUE>>
            ELSE st
      IN  Dispatch_StopAtFinish(calls, k + 1, next)

\* the loop over non_search_calls: st is <<scratchpad, tool_results, done>>
RECURSIVE Dispatch(_, _, _)
Dispatch(calls, k, st) ==
    IF k > Len(calls) THEN st
    ELSE
      LET tc == calls[k]
          fn == tc.function.name
          args == tc.function
          sp == st[1]
          next ==
            IF fn = "add_task" THEN
                <<add_task(sp, args.description, args.depends_on),
                  AppendResult(st[2], ToolMessage(tc.id,
                      "{\"task_id\": " \o ToString(sp.next_id) \o "}")),
                  st[3]>>
            ELSE IF fn = "complete_task" THEN
                <<complete_task(sp, args.task_id, args.result),
                  AppendResult(st[2], ToolMessage(tc.id, "{\"status\": \"ok\"}")),
                  st[3]>>
            ELSE IF fn = "finish" THEN
                <<[sp EXCEPT !.final_answer = args.answer],
                  AppendResult(st[2], ToolMessage(tc.id, "{\"status\": \"done\"}")),
                  TRUE>>
            ELSE st
      IN  Dispatch(calls, k + 1, next)

RECURSIVE JoinLines(_)
JoinLines(lines) ==
    IF Len(lines) = 0 THEN ""
    ELSE IF Len(lines) = 1 THEN lines[1]
    ELSE lines[1] \o "\n" \o JoinLines(Tail(lines))

PartialLine(t) == "- " \o t.description \o ": " \o t.result

IsCompleted(t) == t.status = "complete" /\ Truthy(t.result)

\* slip: every task is taken as completed
Completed_All(sp) == sp.tasks

Completed(sp) == SelectSeq(sp.tasks, IsCompleted)

\* slip: the partial answer is built whether or not a task is completed
Resolve_AlwaysPartial(sp) ==
    IF Truthy(sp.final_answer) THEN sp.final_answer
    ELSE LET done_tasks == Completed(sp)
         IN  PartialTag \o "\n"
             \o JoinLines([k \in 1 .. Len(done_tasks) |-> PartialLine(done_tasks[k])])

\* slip: the message for no results tells how many rounds were used
Resolve_CountsRounds(sp) ==
    IF Truthy(sp.final_answer) THEN sp.final_answer
    ELSE LET done_tasks == Completed(sp)
         IN  IF Len(done_tasks) > 0
             THEN PartialTag \o "\n"
                  \o JoinLines([k \in 1 .. Len(done_tasks) |-> PartialLine(done_tasks[k])])
             ELSE NoResultsMessage \o " " \o ToString(iteration + 1)

\* what run returns once the loop is left
Resolve(sp) ==
    IF Truthy(sp.final_answer) THEN sp.final_answer
    ELSE LET done_tasks == Completed(sp)
         IN  IF Len(done_tasks) > 0
             THEN PartialTag \o "\n"
                  \o JoinLines([k \in 1 .. Len(done_tasks) |-> PartialLine(done_tasks[k])])
             ELSE NoResultsMessage

Init ==
    /\ pc = "plan"
    /\ iteration = 0
    /\ scratchpad = NewScratchpad(Question)
    /\ messages = <<>>
    /\ search_calls = <<>>
    /\ non_search_calls = <<>>
    /\ search_results = <<>>
    /\ completed = <<>>
    /\ answer = None

\* slip: the loop runs one round more than MAX_ITERATIONS
RestOfRound_ExtraRound(msgs, tool_results) ==
    LET st == Dispatch(non_search_calls', 1, <<scratchpad, tool_results, FALSE>>)
    IN  /\ scratchpad' = st[1]
        /\ messages' = msgs \o st[2]
        /\ IF st[3] \/ iteration + 1 > MAX_ITERATIONS
           THEN /\ pc' = "returned"
                /\ answer' = Resolve(st[1])
                /\ iteration' = iteration
           ELSE /\ pc' = "plan"
                /\ answer' = answer
                /\ iteration' = iteration + 1

\* the round from the dispatch of non_search_calls to the loop's next step
RestOfRound(msgs, tool_results) ==
    LET st == Dispatch(non_search_calls', 1, <<scratchpad, tool_results, FALSE>>)
    IN  /\ scratchpad' = st[1]
        /\ messages' = msgs \o st[2]
        /\ IF st[3] \/ iteration + 1 >= MAX_ITERATIONS
           THEN /\ pc' = "returned"
                /\ answer' = Resolve(st[1])
                /\ iteration' = iteration
           ELSE /\ pc' = "plan"
                /\ answer' = answer
                /\ iteration' = iteration + 1

\* slip: the text is appended and the loop goes on to the next round
PlannerText_Continue ==
    /\ pc = "plan"
    /\ \E resp \in TextResponses :
         /\ Truthy(resp.content)
         /\ messages' = Append(messages, AssistantMessage(resp))
    /\ IF iteration + 1 >= MAX_ITERATIONS
       THEN pc' = "returned" /\ answer' = Resolve(scratchpad) /\ iteration' = iteration
       ELSE pc' = "plan" /\ answer' = answer /\ iteration' = iteration + 1
    /\ UNCHANGED <<scratchpad, search_calls, non_search_calls,
                   search_results, completed>>

\* the Planner answers with free text and no tool call: implicit finish
PlannerText ==
    /\ pc = "plan"
    /\ \E resp \in TextResponses :
         /\ Truthy(resp.content)
         /\ messages' = Append(messages, AssistantMessage(resp))
         /\ answer' = resp.content
    /\ pc' = "returned"
    /\ UNCHANGED <<iteration, scratchpad, search_calls, non_search_calls,
                   search_results, completed>>

\* the Planner answers with neither text nor tool call: the loop is left
PlannerEmpty ==
    /\ pc = "plan"
    /\ \E resp \in TextResponses :
         /\ ~Truthy(resp.content)
         /\ messages' = Append(messages, AssistantMessage(resp))
    /\ answer' = Resolve(scratchpad)
    /\ pc' = "returned"
    /\ UNCHANGED <<iteration, scratchpad, search_calls, non_search_calls,
                   search_results, completed>>

\* the Planner proposes calls, none of them a search: the round runs to its end
PlannerMutations ==
    /\ pc = "plan"
    /\ \E resp \in ToolResponses(iteration, messages, scratchpad) :
         /\ SelectSeq(resp.tool_calls, IsSearch) = <<>>
         /\ search_calls' = <<>>
         /\ non_search_calls' = SelectSeq(resp.tool_calls, IsNotSearch)
         /\ RestOfRound(Append(messages, AssistantMessage(resp)), <<>>)
    /\ UNCHANGED <<search_results, completed>>

\* slip: the other calls are dispatched when the searches are started
PlannerSearches_Eager ==
    /\ pc = "plan"
    /\ \E resp \in ToolResponses(iteration, messages, scratchpad) :
         /\ SelectSeq(resp.tool_calls, IsSearch) /= <<>>
         /\ search_calls' = SelectSeq(resp.tool_calls, IsSearch)
         /\ non_search_calls' = SelectSeq(resp.tool_calls, IsNotSearch)
         /\ messages' = Append(messages, AssistantMessage(resp))
         /\ search_results' = [k \in 1 .. Len(search_calls') |-> NotDone]
         /\ scratchpad' = Dispatch(non_search_calls', 1, <<scratchpad, <<>>, FALSE>>)[1]
    /\ completed' = <<>>
    /\ pc' = "search"
    /\ UNCHANGED <<iteration, answer>>

\* the Planner proposes calls, some of them searches: they are all started
PlannerSearches ==
    /\ pc = "plan"
    /\ \E resp \in ToolResponses(iteration, messages, scratchpad) :
         /\ SelectSeq(resp.tool_calls, IsSearch) /= <<>>
         /\ search_calls' = SelectSeq(resp.tool_calls, IsSearch)
         /\ non_search_calls' = SelectSeq(resp.tool_calls, IsNotSearch)
         /\ messages' = Append(messages, AssistantMessage(resp))
         /\ search_results' = [k \in 1 .. Len(search_calls') |-> NotDone]
    /\ completed' = <<>>
    /\ pc' = "search"
    /\ UNCHANGED <<iteration, scratchpad, answer>>

\* the call to the Planner raises
PlannerFails ==
    /\ pc = "plan"
    /\ pc' = "failed"
    /\ UNCHANGED <<iteration, scratchpad, messages, search_calls,
                   non_search_calls, search_results, completed, answer>>

InFlight == {k \in DOMAIN search_calls : \A j \in DOMAIN completed : completed[j] /= k}

\* one of the searches in flight returns
SearchReturns ==
    /\ pc = "search"
    /\ \E k \in InFlight :
         /\ search_results' = [search_results EXCEPT ![k] =
                ToolMessage(search_calls[k].id,
                            SearchContent(search_calls[k].function.query))]
         /\ completed' = Append(completed, k)
    /\ UNCHANGED <<pc, iteration, scratchpad, messages, search_calls,
                   non_search_calls, answer>>

\* slip: a search that raises is left out and the round goes on without it
SearchFails_Partial ==
    /\ pc = "search"
    /\ InFlight /= {}
    /\ pc' = "failed"
    /\ messages' = messages \o
           [j \in 1 .. Len(completed) |-> search_results[completed[j]]]
    /\ scratchpad' = Dispatch(non_search_calls, 1, <<scratchpad, <<>>, FALSE>>)[1]
    /\ UNCHANGED <<iteration, search_calls, non_search_calls, search_results,
                   completed, answer>>

\* one of the searches in flight raises, and gather raises into run
SearchFails ==
    /\ pc = "search"
    /\ InFlight /= {}
    /\ pc' = "failed"
    /\ UNCHANGED <<iteration, scratchpad, messages, search_calls,
                   non_search_calls, search_results, completed, answer>>

\* every search has returned: gather returns and the round runs to its end
GatherReturns ==
    /\ pc = "search"
    /\ InFlight = {}
    /\ UNCHANGED <<search_calls, non_search_calls>>
    /\ RestOfRound(messages, Gather(search_calls, search_results, completed))
    /\ UNCHANGED <<search_results, completed>>

Next ==
    \/ PlannerText
    \/ PlannerEmpty
    \/ PlannerMutations
    \/ PlannerSearches
    \/ PlannerFails
    \/ SearchReturns
    \/ SearchFails
    \/ GatherReturns

Spec == Init /\ [][Next]_vars

\* the steps of a run in which every call to the Planner and every search
\* returns
NextReturns ==
    \/ PlannerText
    \/ PlannerEmpty
    \/ PlannerMutations
    \/ PlannerSearches
    \/ SearchReturns
    \/ GatherReturns

\* such a run: an awaited call returns in the end, and the event loop resumes
\* run once gather is done. While run awaits the Planner a response of plain
\* text is possible, so fairness on that one response leaves out exactly the
\* runs in which the awaited Planner call never returns; every other response
\* stays possible.
LiveSpec ==
    /\ Init
    /\ [][NextReturns]_vars
    /\ WF_vars(PlannerText)
    /\ WF_vars(SearchReturns)
    /\ WF_vars(GatherReturns)

(* ------------------------- reading the history ------------------------- *)

Tasks == scratchpad.tasks

AssistantIndexes == {i \in DOMAIN messages : messages[i].role = "assistant"}

RECURSIVE LastAssistantUpTo(_)
LastAssistantUpTo(i) ==
    IF i = 0 \/ messages[i].role = "assistant" THEN i ELSE LastAssistantUpTo(i - 1)

\* the Planner message of the latest round
LastAssistant == LastAssistantUpTo(Len(messages))

\* the calls the Planner proposed in the latest round, in emission order
RoundCalls == messages[LastAssistant].tool_calls

\* what the latest round appended after the Planner message
RoundResults == SubSeq(messages, LastAssistant + 1, Len(messages))

\* the latest round has run to its end
RoundDone == pc \in {"plan", "returned"} /\ messages /= <<>>

RoundSearches == SelectSeq(RoundCalls, IsSearch)

RoundMutations == SelectSeq(RoundCalls, IsNotSearch)

IdsOf(calls) == {calls[k].id : k \in DOMAIN calls}

(* -------------------------------- C1 ----------------------------------- *)

IdsIncreasing(sp) ==
    /\ \A i, j \in DOMAIN sp.tasks : i < j => sp.tasks[i].id < sp.tasks[j].id
    /\ \A i \in DOMAIN sp.tasks : sp.tasks[i].id < sp.next_id

TasksKept ==
    /\ Len(scratchpad'.tasks) >= Len(Tasks)
    /\ \A i \in DOMAIN Tasks : scratchpad'.tasks[i].id = Tasks[i].id
    /\ scratchpad'.next_id >= scratchpad.next_id

\* C1: after any sequence of add_task calls, interleaved with complete_task and
\* finish calls, the task ids are pairwise distinct and strictly increasing in
\* creation order, every id is below the id counter (so none is used again),
\* and no step removes a task or changes the id of one.
C1_IdsUniqueIncreasing == [](IdsIncreasing(scratchpad)) /\ [][TasksKept]_vars

\* two tasks created, one of them completed, and finish called
C1_Witness ==
    /\ Len(Tasks) = 2
    /\ Tasks[1].id = 0 /\ Tasks[2].id = 1
    /\ \E i \in DOMAIN Tasks : Tasks[i].status = "complete"
    /\ scratchpad.final_answer = "a1"

(* -------------------------------- C2 ----------------------------------- *)

\* the ids that existed when the task at position i was created
ExistedBefore(i) == {Tasks[j].id : j \in 1 .. i - 1}

\* C2: add_task with a depends_on id that names no existing task fails and
\* leaves the Scratchpad unchanged, so in every reachable state each task's
\* depends_on only holds ids that existed when the task was created.
C2_DependsOnExisted ==
    \A i \in DOMAIN Tasks :
        \A k \in DOMAIN Tasks[i].depends_on :
            Tasks[i].depends_on[k] \in ExistedBefore(i)

(* -------------------------------- C3 ----------------------------------- *)

IsCompleteId(d) == \E j \in DOMAIN Tasks : Tasks[j].id = d /\ Tasks[j].status = "complete"

\* C3: every task runnable_tasks() returns is pending and each id of its
\* depends_on is the id of a task that is complete; a task with a dependency
\* that is not complete, or that names no task, is not returned.
C3_RunnableDepsComplete ==
    LET r == runnable_tasks(scratchpad)
    IN  /\ \A k \in DOMAIN r :
             /\ r[k].status = "pending"
             /\ \A n \in DOMAIN r[k].depends_on : IsCompleteId(r[k].depends_on[n])
        /\ \A i \in DOMAIN Tasks :
             (\E n \in DOMAIN Tasks[i].depends_on : ~IsCompleteId(Tasks[i].depends_on[n]))
                 => \A k \in DOMAIN r : r[k].id /= Tasks[i].id

\* a task with a dependency is returned, its dependency being complete
C3_Witness ==
    LET r == runnable_tasks(scratchpad)
    IN  \E k \in DOMAIN r : r[k].depends_on = <<0>> /\ r[k].id = 1

(* -------------------------------- C4 ----------------------------------- *)

\* C4: when the Planner proposes N searches in one round, the first N results
\* the round appends are the N search results in the order the Planner emitted
\* the searches, each with the tool_call_id and the content of its own search,
\* whatever the order the searches completed in.
C4_SearchResultsInEmissionOrder ==
    RoundDone =>
        /\ Len(RoundResults) >= Len(RoundSearches)
        /\ \A k \in DOMAIN RoundSearches :
             RoundResults[k] =
                 ToolMessage(RoundSearches[k].id,
                             SearchContent(RoundSearches[k].function.query))

\* two searches of different queries, the second completed first
C4_Witness ==
    /\ RoundDone
    /\ Len(RoundSearches) = 2
    /\ RoundSearches[1].function.query /= RoundSearches[2].function.query
    /\ completed = <<2, 1>>
    /\ Len(RoundResults) = 2

(* -------------------------------- C5 ----------------------------------- *)

\* C5: a round with tool calls appends the Planner's message first (it is the
\* last entry of the history while the round's searches run), then the search
\* results, then the mutation results: every entry after the Planner message
\* is the result of one of its calls, and no search result comes after a
\* mutation result, whatever the order the Planner emitted the calls in.
C5_PlannerThenSearchesThenMutations ==
    /\ pc = "search" => messages[Len(messages)].role = "assistant"
    /\ RoundDone =>
         /\ \A j \in DOMAIN RoundResults :
              /\ RoundResults[j].role = "tool"
              /\ RoundResults[j].tool_call_id \in IdsOf(RoundCalls)
         /\ \A i, j \in DOMAIN RoundResults :
              (i < j /\ RoundResults[j].tool_call_id \in IdsOf(RoundSearches))
                  => RoundResults[i].tool_call_id \in IdsOf(RoundSearches)

\* the Planner emitted a mutation before a search, and the search result was
\* appended before the mutation result
C5_Witness ==
    /\ RoundDone
    /\ Len(RoundCalls) = 2
    /\ RoundCalls[1].function.name = "add_task"
    /\ RoundCalls[2].function.name = "search_knowledge"
    /\ Len(RoundResults) = 2
    /\ RoundResults[1].tool_call_id = RoundCalls[2].id
    /\ RoundResults[2].tool_call_id = RoundCalls[1].id

(* -------------------------------- C6 ----------------------------------- *)

RoundFinishes == SelectSeq(RoundCalls, LAMBDA tc : tc.function.name = "finish")

\* C6: whenever a round contains a finish(answer) call, the run returns that
\* answer and Scratchpad.final_answer equals it at return, for every answer
\* the Planner may supply.
C6_FinishReturnsAnswer ==
    pc = "returned" =>
        \A k \in DOMAIN RoundFinishes :
            /\ answer = RoundFinishes[k].function.answer
            /\ scratchpad.final_answer = RoundFinishes[k].function.answer

(* -------------------------------- C7 ----------------------------------- *)

ToolNames == {"search_knowledge", "add_task", "complete_task", "finish"}

\* C7: a call whose name is outside the fixed tool set gets a tool result of
\* its own in the history (the UnknownTool error payload), and the run goes
\* on to the next round.
C7_UnknownToolGetsResult ==
    RoundDone =>
        \A k \in DOMAIN RoundCalls :
            RoundCalls[k].function.name \notin ToolNames =>
                \E j \in DOMAIN RoundResults :
                    RoundResults[j].tool_call_id = RoundCalls[k].id

(* ------------------------------ C8, C9 --------------------------------- *)

HasFinish(i) ==
    \E k \in DOMAIN messages[i].tool_calls :
        messages[i].tool_calls[k].function.name = "finish"

\* the loop ran through its last round and was left by neither finish nor a
\* response without tool calls
Exhausted ==
    /\ pc = "returned"
    /\ iteration = MAX_ITERATIONS - 1
    /\ RoundCalls /= <<>>
    /\ \A i \in AssistantIndexes : ~HasFinish(i)

HasResult(t) == t.status = "complete" /\ t.result /= None /\ t.result /= ""

\* "\n- description: result" of the tasks from position i on that are complete
\* with a non-empty result, in creation order
RECURSIVE PartialLinesFrom(_, _)
PartialLinesFrom(tasks, i) ==
    IF i > Len(tasks) THEN ""
    ELSE IF HasResult(tasks[i])
         THEN "\n- " \o tasks[i].description \o ": " \o tasks[i].result
              \o PartialLinesFrom(tasks, i + 1)
         ELSE PartialLinesFrom(tasks, i + 1)

C9_NoResultsMessage ==
    (/\ Exhausted
     /\ \A i \in DOMAIN Tasks : Tasks[i].status /= "complete"
     /\ scratchpad.final_answer = None)
        => answer = NoResultsMessage

\* exhausted with tasks created and none completed
C9_Witness ==
    /\ Exhausted
    /\ Len(Tasks) = 2
    /\ \A i \in DOMAIN Tasks : Tasks[i].status = "pending"
    /\ answer = NoResultsMessage

(* -------------------------------- C10 ---------------------------------- *)

\* the step appends a Planner message that carries no tool call
TextStep ==
    /\ Len(messages') = Len(messages) + 1
    /\ messages'[Len(messages')].role = "assistant"
    /\ messages'[Len(messages')].tool_calls = <<>>

\* the step appends a Planner message that carries tool calls and free text
CallsWithTextStep ==
    /\ pc = "plan"
    /\ Len(messages') > Len(messages)
    /\ messages'[Len(messages) + 1].tool_calls /= <<>>
    /\ messages'[Len(messages) + 1].content = "t1"

\* the answer the Scratchpad gives when final_answer is not usable
Fallback(tasks) ==
    IF \E i \in DOMAIN tasks : HasResult(tasks[i])
    THEN PartialTag \o PartialLinesFrom(tasks, 1)
    ELSE NoResultsMessage

PlannerCalls == Cardinality(AssistantIndexes)

\* one call to the Planner in each round: a round that waits for the Planner
\* has had none of its own yet, a round past that has had exactly one
OncePerRound ==
    /\ pc = "plan" => PlannerCalls = iteration
    /\ pc \in {"search", "returned"} => PlannerCalls = iteration + 1
    /\ PlannerCalls <= MAX_ITERATIONS

NameAt(k) == RoundCalls[k].function.name

ArgsAt(k) == RoundCalls[k].function

\* the add_task calls of the latest round from position k on
AddsFrom(k) == Cardinality({m \in k .. Len(RoundCalls) : NameAt(m) = "add_task"})

\* the id counter when the k-th call of the latest round was dispatched (the
\* round is done, and searches do not move the counter)
NextIdAt(k) == scratchpad.next_id - AddsFrom(k)

\* the result the latest round appended for its k-th call is content
HasRoundResult(k, content) ==
    \E j \in DOMAIN RoundResults :
        RoundResults[j] = ToolMessage(RoundCalls[k].id, content)

\* the k-th call of the latest round is a complete_task of a task that existed
CompletesExisting(k) ==
    NameAt(k) = "complete_task" /\ ArgsAt(k).task_id \in 0 .. NextIdAt(k) - 1

\* the results given by the complete_task calls of the latest round, from
\* position k on, for the task the k-th call names
LaterResults(k) ==
    {ArgsAt(m).result : m \in {n \in k .. Len(RoundCalls) :
        NameAt(n) = "complete_task" /\ ArgsAt(n).task_id = ArgsAt(k).task_id}}

\* the effect of the k-th call of the latest round is on the Scratchpad and its
\* result is in the history
Applied(k) ==
    /\ NameAt(k) = "add_task" =>
         /\ HasRoundResult(k, "{\"task_id\": " \o ToString(NextIdAt(k)) \o "}")
         /\ \E i \in DOMAIN Tasks :
              /\ Tasks[i].id = NextIdAt(k)
              /\ Tasks[i].description = ArgsAt(k).description
              /\ Tasks[i].depends_on = ArgsAt(k).depends_on
    /\ CompletesExisting(k) =>
         /\ HasRoundResult(k, "{\"status\": \"ok\"}")
         /\ \E i \in DOMAIN Tasks :
              /\ Tasks[i].id = ArgsAt(k).task_id
              /\ Tasks[i].status = "complete"
              /\ Tasks[i].result \in LaterResults(k)

\* C12: when a round holds a finish call followed by further add_task or
\* complete_task calls, these are still applied to the Scratchpad and their
\* results appended to the history before run returns, and the round is the
\* last one: the Planner is not called again.
C12_MutationsAfterFinishApplied ==
    (RoundDone /\ RoundFinishes /= <<>>) =>
        /\ pc = "returned"
        /\ \A i, k \in DOMAIN RoundCalls :
             (NameAt(i) = "finish" /\ i < k) => Applied(k)

\* finish, then add_task, then complete_task of the new task, in one round
C12_Witness ==
    /\ RoundDone
    /\ Len(RoundCalls) = 3
    /\ NameAt(1) = "finish" /\ NameAt(2) = "add_task" /\ NameAt(3) = "complete_task"
    /\ ArgsAt(3).result = "r1"
    /\ Len(Tasks) = 1
    /\ Tasks[1].status = "complete"
    /\ Len(RoundResults) = 3

(* -------------------------------- C13 ---------------------------------- *)

\* what one mutation-class call does to a Scratchpad
ApplyOne(sp, tc) ==
    IF tc.function.name = "add_task"
        THEN add_task(sp, tc.function.description, tc.function.depends_on)
    ELSE IF tc.function.name = "complete_task"
        THEN complete_task(sp, tc.function.task_id, tc.function.result)
    ELSE IF tc.function.name = "finish"
        THEN [sp EXCEPT !.final_answer = tc.function.answer]
    ELSE sp

\* the fold of the calls over a Scratchpad, in the order of the sequence
RECURSIVE FoldInOrder(_, _)
FoldInOrder(sp, calls) ==
    IF calls = <<>> THEN sp
    ELSE ApplyOne(FoldInOrder(sp, SubSeq(calls, 1, Len(calls) - 1)), calls[Len(calls)])

\* a step ends a round
EndsRound == pc' \in {"plan", "returned"}

\* C13: the Scratchpad after a round is the Scratchpad before it with the
\* round's add_task, complete_task and finish calls folded in, one at a time, in
\* the order the Planner emitted them.
C13_MutationsFoldedInEmissionOrder ==
    [][EndsRound => scratchpad' = FoldInOrder(scratchpad, RoundMutations')]_vars

\* add_task then complete_task of the new id, in one round, completes the task
C13_Witness ==
    /\ RoundDone
    /\ Len(RoundCalls) = 2
    /\ NameAt(1) = "add_task" /\ NameAt(2) = "complete_task"
    /\ ArgsAt(2).task_id = NextIdAt(1)
    /\ \E i \in DOMAIN Tasks : Tasks[i].id = NextIdAt(1) /\ Tasks[i].status = "complete"

\* complete_task of the id the following add_task creates leaves the task pending
C13_WitnessReverse ==
    /\ RoundDone
    /\ Len(RoundCalls) = 2
    /\ NameAt(1) = "complete_task" /\ NameAt(2) = "add_task"
    /\ ArgsAt(1).task_id = NextIdAt(2)
    /\ \E i \in DOMAIN Tasks : Tasks[i].id = NextIdAt(2) /\ Tasks[i].status = "pending"

(* -------------------------------- C14 ---------------------------------- *)

\* C14: the Scratchpad changes only in the step that ends a round, when no
\* search of the round is in flight any more; it is unchanged while a search is
\* in flight, by the call to the Planner that starts the searches, by each
\* search, and by a failure.
C14_NoMutationBeforeJoin ==
    [][/\ scratchpad' /= scratchpad => (pc' \in {"plan", "returned"} /\ InFlight' = {})
       /\ (pc = "search" /\ InFlight /= {}) => scratchpad' = scratchpad
       /\ pc' \in {"search", "failed"} => scratchpad' = scratchpad]_vars

\* a search has returned, another is in flight, and an add_task of the round
\* has not been applied
C14_Witness ==
    /\ pc = "search"
    /\ completed /= <<>>
    /\ InFlight /= {}
    /\ \E k \in DOMAIN non_search_calls : non_search_calls[k].function.name = "add_task"
    /\ Tasks = <<>>

(* -------------------------------- C15 ---------------------------------- *)

\* the k-th call of the latest round is a complete_task of a task that did not
\* exist when it was dispatched
CompletesUnknown(k) ==
    NameAt(k) = "complete_task" /\ ArgsAt(k).task_id \notin 0 .. NextIdAt(k) - 1

\* C15: a complete_task whose task id names no existing task gets a tool result
\* that is not the success result (an UnknownTask error payload).
C15_UnknownTaskSurfaced ==
    RoundDone =>
        \A k \in DOMAIN RoundCalls :
            CompletesUnknown(k) =>
                /\ \E j \in DOMAIN RoundResults :
                     RoundResults[j].tool_call_id = RoundCalls[k].id
                /\ ~HasRoundResult(k, "{\"status\": \"ok\"}")

(* -------------------------------- C16 ---------------------------------- *)

\* the results of the latest round that carry the token of its k-th call
ResultsFor(k) ==
    {j \in DOMAIN RoundResults : RoundResults[j].tool_call_id = RoundCalls[k].id}

\* C16: after a completed round that carried calls, the history holds exactly
\* one tool result for each call of the round, with that call's token, and no
\* tool result without a call.
C16_OneResultPerCall ==
    (RoundDone /\ RoundCalls /= <<>>) =>
        /\ \A k \in DOMAIN RoundCalls : Cardinality(ResultsFor(k)) = 1
        /\ \A j \in DOMAIN RoundResults :
             \E k \in DOMAIN RoundCalls : j \in ResultsFor(k)

(* -------------------------------- C17 ---------------------------------- *)

\* C17: when a search of a round's batch fails, no search result of the round
\* is appended to the history (it ends with the Planner's message), none of the
\* round's other calls is applied to the Scratchpad, and the run is over with a
\* failure and no answer.
C17_SearchFailureFailsBatch ==
    [][/\ (pc = "search" /\ pc' = "failed") =>
            /\ messages' = messages
            /\ Len(messages') = LastAssistant'
            /\ scratchpad' = scratchpad
            /\ answer' = None
       /\ pc /= "failed"]_vars

\* two searches and an add_task in the round, one search has returned, the
\* other has failed
C17_Witness ==
    /\ pc = "failed"
    /\ Len(search_calls) = 2
    /\ RoundSearches = search_calls
    /\ Len(completed) = 1
    /\ \E k \in DOMAIN non_search_calls : non_search_calls[k].function.name = "add_task"
    /\ Len(messages) = LastAssistant
    /\ Tasks = <<>>
    /\ answer = None

(* -------------------------------- C18 ---------------------------------- *)

LastFinish == RoundFinishes[Len(RoundFinishes)]

\* C18 as stated: final_answer is written once, so after a round with finish
\* calls it holds the answer of the first of them, whatever follows it in the
\* round.
C18_WriteOnce ==
    (RoundDone /\ RoundFinishes /= <<>>) =>
        scratchpad.final_answer = RoundFinishes[1].function.answer

\* C18, amended: final_answer is unset until a round carries a finish call;
\* that round is the last one of the run, and after it final_answer holds the
\* answer of the last finish call of the round (each finish call of the round
\* overwrites the one before it).
C18_LastFinishOfLastRound ==
    /\ scratchpad.final_answer /= None =>
         /\ pc = "returned"
         /\ RoundFinishes /= <<>>
    /\ (RoundDone /\ RoundFinishes /= <<>>) =>
         /\ pc = "returned"
         /\ scratchpad.final_answer = LastFinish.function.answer

\* two finish calls with different answers in one round
C18_Witness ==
    /\ pc = "returned"
    /\ Len(RoundFinishes) = 2
    /\ RoundFinishes[1].function.answer = "a1"
    /\ RoundFinishes[2].function.answer = ""
    /\ scratchpad.final_answer = ""

(* -------------------------------- C19 ---------------------------------- *)

\* the task at index i has a dependency that is not complete
HasOpenDependency(i) ==
    \E d \in DOMAIN Tasks[i].depends_on : ~IsCompleteId(Tasks[i].depends_on[d])

\* a round of one complete_task call, on the pending task at index i
CompletesAlone(i) ==
    /\ pc' \in {"plan", "returned"}
    /\ Len(RoundCalls') = 1
    /\ RoundCalls'[1].function.name = "complete_task"
    /\ RoundCalls'[1].function.task_id = Tasks[i].id
    /\ Tasks[i].status = "pending"

\* C19: complete_task on a pending task with a dependency that is not complete
\* succeeds: the task becomes complete with the given result and the call gets
\* the success result. In every round, each complete_task of an existing task
\* is applied whatever the task's dependencies are.
C19_CompletionNotGated ==
    /\ [](RoundDone => \A k \in DOMAIN RoundCalls : CompletesExisting(k) => Applied(k))
    /\ [][\A i \in DOMAIN Tasks :
            (HasOpenDependency(i) /\ CompletesAlone(i)) =>
                /\ Tasks'[i].status = "complete"
                /\ Tasks'[i].result = RoundCalls'[1].function.result
                /\ RoundResults' = <<ToolMessage(RoundCalls'[1].id,
                                                 "{\"status\": \"ok\"}")>>]_vars

\* a task is complete while a task it depends on is pending
C19_Witness ==
    \E i, j \in DOMAIN Tasks :
        /\ Tasks[i].status = "complete"
        /\ Tasks[i].result = "r1"
        /\ Tasks[j].status = "pending"
        /\ \E d \in DOMAIN Tasks[i].depends_on : Tasks[i].depends_on[d] = Tasks[j].id

(* -------------------------------- C20 ---------------------------------- *)

\* run has returned from behind the loop, not with a response's free text
LeftLoop ==
    /\ pc = "returned"
    /\ ~(RoundCalls = <<>> /\ Truthy(messages[LastAssistant].content))

\* the answer as a function of the Scratchpad alone
AnswerOf(sp) ==
    IF Truthy(sp.final_answer) THEN sp.final_answer ELSE Fallback(sp.tasks)

\* C20: the answer of a run that leaves the loop is a function of the final
\* Scratchpad alone: it is AnswerOf(scratchpad) whatever the history, the
\* search results and the number of rounds were. Hence two runs that leave the
\* loop with equal Scratchpads return equal answers.
C20_ResolutionIsFunctionOfScratchpad ==
    LeftLoop => answer = AnswerOf(scratchpad)

\* the loop is left before its last round by a response with no tool call and
\* no text, and the answer is the partial answer of the Scratchpad
C20_Witness ==
    /\ LeftLoop
    /\ RoundCalls = <<>>
    /\ iteration < MAX_ITERATIONS - 1
    /\ scratchpad.final_answer = None
    /\ answer = PartialTag \o "\n- d1: r1"

\* the loop is left by exhaustion with searches in the history, and the answer
\* is the same partial answer
C20_WitnessOtherHistory ==
    /\ LeftLoop
    /\ Exhausted
    /\ RoundSearches /= <<>>
    /\ scratchpad.final_answer = None
    /\ answer = PartialTag \o "\n- d1: r1"

(* -------------------------------- C21 ---------------------------------- *)

\* run has returned the partial answer or the message for no results
ReturnedFallback == pc = "returned" /\ answer = Fallback(Tasks)

\* C21: run returns a fallback answer (the partial answer tagged "max
\* iterations reached" or the message for no results) only when the round
\* budget is exhausted: the Planner was called in all MAX_ITERATIONS rounds, and
\* no round carried a finish call or a response without tool calls.
C21_FallbackOnlyWhenExhausted ==
    ReturnedFallback => (Exhausted /\ PlannerCalls = MAX_ITERATIONS)

(* -------------------------------- C22 ---------------------------------- *)

\* every task is pending or complete, and has a result (a value other than
\* None, possibly the empty text) exactly when it is complete
StatusAndResult ==
    \A i \in DOMAIN Tasks :
        /\ Tasks[i].status \in {"pending", "complete"}
        /\ (Tasks[i].result /= None) <=> (Tasks[i].status = "complete")

\* a step keeps every task, with its id, description and depends_on, and keeps
\* a complete task complete
TasksMonotonic ==
    \A i \in DOMAIN Tasks :
        /\ i \in DOMAIN scratchpad'.tasks
        /\ scratchpad'.tasks[i].id = Tasks[i].id
        /\ scratchpad'.tasks[i].description = Tasks[i].description
        /\ scratchpad'.tasks[i].depends_on = Tasks[i].depends_on
        /\ Tasks[i].status = "complete" => scratchpad'.tasks[i].status = "complete"

\* C22: in every reachable state each task is pending or complete (running and
\* blocked are never reached) and its result is set exactly when it is complete;
\* no step returns a complete task to pending or changes the id, description or
\* depends_on of a task.
C22_TaskLifecycleMonotonic ==
    /\ [](StatusAndResult)
    /\ [][TasksMonotonic]_vars

\* a complete task with its result beside a pending task without one, after the
\* round that completed the first of them
C22_Witness ==
    /\ RoundDone
    /\ \E k \in DOMAIN RoundCalls : CompletesExisting(k)
    /\ Len(Tasks) = 2
    /\ Tasks[1].status = "complete" /\ Tasks[1].result = "r1"
    /\ Tasks[2].status = "pending" /\ Tasks[2].result = None

\* a task completed with the empty text as its result
C22_WitnessEmptyResult ==
    \E i \in DOMAIN Tasks : Tasks[i].status = "complete" /\ Tasks[i].result = ""

====
